---- MODULE Spec2Model ----
(***************************************************************************)
(* Model of custom_components/minecraft_bedrock/__init__.py: one config    *)
(* entry, its MinecraftServer instance, the update cycles started on it    *)
(* (by async_setup_entry and by the interval timer) and the unload.        *)
(*                                                                         *)
(* Home Assistant runs every coroutine on one event loop, so the code      *)
(* between two awaits is one atomic step.  async_update has three await    *)
(* points that yield to the loop: the SRV lookup (line 135), the executor  *)
(* job of async_check_connection (line 151) and the executor job of        *)
(* _async_status_request (line 187).  A cycle waits at one of them, and    *)
(* each action below is the code that runs from one of them to the next.   *)
(***************************************************************************)
EXTENDS Naturals, FiniteSets, Sequences, TLC

\* Number of update cycles a behaviour may start (caps the model).
MaxCycles == 3

\* Number of update cycles that may be between start and end at once.
MaxInFlight == 2

\* Number of update cycles started by a caller other than the setup and
\* the timer.
MaxCalls == 1

\* Line 85: _MAX_RETRIES_STATUS.
MAX_RETRIES_STATUS == 3

Cycles == 1..MaxCycles

None == "None"

\* config_entry.data: the configured address.
ConfigData == [host |-> "conf_host", port |-> "conf_port"]

\* The address an SRV record names.
SrvRecord == [host |-> "srv_host", port |-> "srv_port"]

\* What helpers.async_check_srv_record returns: None, or a record.
SrvResults == {None, "record"}

\* How a call of self._mc_status.status ends: a response, an OSError
\* (socket timeout, refusal, gaierror), or an exception that is no OSError
\* (a reply that does not parse).
StatusOutcomes == {"ok", "OSError", "Exception"}

\* Payloads a status response may carry.
Responses == {"a", "b"}

VARIABLES
    host,                        \* self.host
    port,                        \* self.port
    online,                      \* self.online
    last_status_request_failed,  \* self._last_status_request_failed
    srv_record_checked,          \* self.srv_record_checked
    mc_status,                   \* self._mc_status: the address it queries
    props,                       \* the data provided by the library
    stop_periodic_update,        \* self._stop_periodic_update
    timer,                       \* the interval timer: unarmed, armed, cancelled
    setup,                       \* position of async_setup_entry
    unload,                      \* position of async_unload_entry
    domain_data,                 \* unique_id in hass.data[DOMAIN]
    cycle,                       \* the update cycles, in the order they started
    started,                     \* number of cycles started
    srv_calls,                   \* calls of helpers.async_check_srv_record
    cancel_calls,                \* calls of the timer's cancel callback
    status_events                \* the messages _async_status_request logged

vars == <<host, port, online, last_status_request_failed, srv_record_checked,
          mc_status, props, stop_periodic_update, timer, setup, unload,
          domain_data, cycle, started, srv_calls, cancel_calls,
          status_events>>

server == <<host, port, online, last_status_request_failed,
            srv_record_checked, mc_status, props, status_events>>

lifecycle == <<stop_periodic_update, timer, setup, unload, domain_data,
               cancel_calls>>

----------------------------------------------------------------------------
\* Pure parts of the code.

\* Lines 212-219: all properties unknown (also the values of __init__).
Unknown ==
    [version |-> None, protocol_version |-> None, latency_time |-> None,
     players_online |-> None, players_max |-> None, players_list |-> None,
     motd |-> None, map |-> None]

\* Lines 193-199: the properties after a response r; players_list is not
\* assigned on this path.
Updated(old, r) ==
    [version |-> <<"brand", r>>, protocol_version |-> <<"protocol", r>>,
     latency_time |-> <<"latency", r>>, players_online |-> <<"online", r>>,
     players_max |-> <<"max", r>>, players_list |-> old.players_list,
     motd |-> <<"motd", r>>, map |-> <<"map", r>>]

\* The metric fields the entities read.
MetricFields ==
    {"version", "protocol_version", "latency_time", "players_online",
     "players_max", "motd", "map"}

\* Mutant of ConnectionLog: the warning no longer looks at the old value.
ConnectionLog_Level(server_online_old, server_online) ==
    IF ~server_online THEN "warning"
    ELSE IF ~server_online_old /\ server_online THEN "info"
    ELSE "none"

\* Mutant of ConnectionLog: the info no longer looks at the old value.
ConnectionLog_NoOld(server_online_old, server_online) ==
    IF server_online_old /\ ~server_online THEN "warning"
    ELSE IF server_online THEN "info"
    ELSE "none"

\* Lines 172-175: the message logged for a connectivity change.
ConnectionLog(server_online_old, server_online) ==
    IF server_online_old /\ ~server_online THEN "warning"
    ELSE IF ~server_online_old /\ server_online THEN "info"
    ELSE "none"

\* Lines 203-208: the message logged when the status request succeeds.
SuccessLog(failed_before) == IF failed_before THEN "info" ELSE "none"

\* Mutant of FailureLog: the flag is not consulted.
FailureLog_Always(failed_before) == "warning"

\* Lines 222-228: the message logged when the status request fails.
FailureLog(failed_before) == IF ~failed_before THEN "warning" ELSE "none"

----------------------------------------------------------------------------
\* The cycles.

IdleCycle ==
    [pc |-> "idle", origin |-> None, server_online_old |-> FALSE,
     ping |-> None, status |-> None, conn_log |-> "none",
     status_log |-> "none", sent |-> 0, online_probed |-> None,
     online_after |-> None,
     failed_after |-> None, error |-> None,
     online_prior |-> None, failed_prior |-> None,
     ping_calls |-> 0, ping_tries |-> None,
     status_calls |-> 0, status_tries |-> None]

\* Lines 151-153: the status request of async_check_connection is handed
\* to the executor; rec is the cycle as it reaches that line.
Ping(rec) ==
    [rec EXCEPT !.pc = "ping", !.ping_calls = @ + 1,
                !.ping_tries = MAX_RETRIES_STATUS]

\* Lines 187-189: the status request of _async_status_request is handed to
\* the executor.
Fetch(rec) ==
    [rec EXCEPT !.pc = "status", !.status_calls = @ + 1,
                !.status_tries = MAX_RETRIES_STATUS]

\* Mutant of Notify: an offline cycle returns without sending the signal.
Notify_OnlineOnly(rec) ==
    IF rec.online_probed = TRUE
    THEN [rec EXCEPT !.pc = "done", !.sent = @ + 1]
    ELSE [rec EXCEPT !.pc = "done"]

\* Line 182: async_dispatcher_send(self._hass, self.signal_name), the last
\* statement of async_update; rec is the cycle as it reaches that line.
Notify(rec) == [rec EXCEPT !.pc = "done", !.sent = @ + 1]

\* An exception leaves async_update: nothing after the raising line runs.
Raise(rec, error) == [rec EXCEPT !.pc = "raised", !.error = error]

InFlight == {c \in Cycles : cycle[c].pc \in {"srv", "ping", "status"}}

Ended == {c \in Cycles : cycle[c].pc \in {"done", "raised"}}

Init ==
    /\ host = ConfigData.host
    /\ port = ConfigData.port
    /\ online = FALSE
    /\ last_status_request_failed = FALSE
    /\ srv_record_checked = FALSE
    /\ mc_status = [host |-> ConfigData.host, port |-> ConfigData.port]
    /\ props = Unknown
    /\ stop_periodic_update = None
    /\ timer = "unarmed"
    /\ setup = "created"
    /\ unload = "none"
    /\ domain_data = FALSE
    /\ cycle = [c \in Cycles |-> IdleCycle]
    /\ started = 0
    /\ srv_calls = 0
    /\ cancel_calls = 0
    /\ status_events = <<>>

\* Lines 120-124: start_periodic_update.
StartPeriodicUpdate ==
    /\ stop_periodic_update' = "cancel"
    /\ timer' = "armed"

\* Lines 47-56 after the await: what async_setup_entry does when the update
\* it awaits ends.  An exception of the update leaves async_setup_entry at
\* line 47; otherwise the timer is armed.
Continue(c, end) ==
    IF cycle[c].origin = "setup"
    THEN IF end = "done"
         THEN /\ StartPeriodicUpdate
              /\ setup' = "loaded"
              /\ UNCHANGED <<unload, domain_data, cancel_calls>>
         ELSE /\ setup' = "failed"
              /\ UNCHANGED <<stop_periodic_update, timer, unload, domain_data,
                             cancel_calls>>
    ELSE UNCHANGED lifecycle

\* Mutant of Begin: line 134 is missing, the flag is never set.
Begin_NoFlag(c, origin) ==
    /\ started' = c
    /\ IF ~srv_record_checked
       THEN /\ srv_calls' = srv_calls + 1
            /\ cycle' = [cycle EXCEPT ![c] =
                  [IdleCycle EXCEPT !.pc = "srv", !.origin = origin,
                                    !.server_online_old = online]]
       ELSE /\ UNCHANGED srv_calls
            /\ cycle' = [cycle EXCEPT ![c] =
                  Ping([IdleCycle EXCEPT !.origin = origin,
                                         !.server_online_old = online])]
    /\ UNCHANGED <<host, port, online, last_status_request_failed,
                   srv_record_checked, mc_status, props, status_events>>

\* Lines 167-168 and 133-135/151: async_update from its call to its first
\* await.  The SRV flag is set before the lookup is awaited.
Begin(c, origin) ==
    /\ started' = c
    /\ IF ~srv_record_checked
       THEN /\ srv_record_checked' = TRUE
            /\ srv_calls' = srv_calls + 1
            /\ cycle' = [cycle EXCEPT ![c] =
                  [IdleCycle EXCEPT !.pc = "srv", !.origin = origin,
                                    !.server_online_old = online]]
       ELSE /\ UNCHANGED <<srv_record_checked, srv_calls>>
            /\ cycle' = [cycle EXCEPT ![c] =
                  Ping([IdleCycle EXCEPT !.origin = origin,
                                         !.server_online_old = online])]
    /\ UNCHANGED <<host, port, online, last_status_request_failed,
                   mc_status, props, status_events>>

\* Mutant of SetupEntry: lines 47 and 48 are swapped, the timer is armed
\* before the first update is awaited.
SetupEntry_ArmFirst ==
    /\ setup = "created"
    /\ setup' = "updating"
    /\ domain_data' = TRUE
    /\ StartPeriodicUpdate
    /\ Begin(1, "setup")
    /\ UNCHANGED <<unload, cancel_calls>>

\* Lines 36-47: async_setup_entry up to the await of the first update.
SetupEntry ==
    /\ setup = "created"
    /\ setup' = "updating"
    /\ domain_data' = TRUE
    /\ Begin(1, "setup")
    /\ UNCHANGED <<stop_periodic_update, timer, unload, cancel_calls>>

\* Lines 122-124 and 164: the interval timer calls async_update.
Fire(limit) ==
    /\ timer = "armed"
    /\ started < MaxCycles
    /\ Cardinality(InFlight) < limit
    /\ Begin(started + 1, "timer")
    /\ UNCHANGED lifecycle

TimerFire == Fire(MaxInFlight)

\* Lines 135-147 (and 151): the SRV lookup returns.  With a record, host
\* and port are overwritten and line 147 names MCStatus, which the module
\* never binds (line 7 imports MCStatusBedrock): a NameError leaves
\* async_update.
SrvReturn(c) ==
    /\ cycle[c].pc = "srv"
    /\ \E r \in SrvResults :
          IF r = None
          THEN /\ cycle' = [cycle EXCEPT ![c] = Ping(@)]
               /\ UNCHANGED <<host, port, lifecycle>>
          ELSE /\ host' = SrvRecord.host
               /\ port' = SrvRecord.port
               /\ cycle' = [cycle EXCEPT ![c] = Raise(
                        [@ EXCEPT !.online_after = online], "NameError")]
               /\ Continue(c, "raised")
    /\ UNCHANGED <<online, last_status_request_failed, srv_record_checked,
                   mc_status, props, started, srv_calls, status_events>>

\* Mutant of PingReturn: line 162 is missing, an OSError leaves online as
\* it was.
PingReturn_StickyOnline(c) ==
    /\ cycle[c].pc = "ping"
    /\ \E o \in StatusOutcomes :
          CASE o = "ok" ->
                 /\ online' = TRUE
                 /\ cycle' = [cycle EXCEPT ![c] = Fetch(
                        [@ EXCEPT !.ping = o,
                                  !.online_prior = online,
                                  !.online_probed = TRUE,
                                  !.online_after = TRUE,
                                  !.conn_log =
                                      ConnectionLog(cycle[c].server_online_old,
                                                    TRUE)])]
                 /\ UNCHANGED lifecycle
            [] o = "OSError" ->
                 /\ UNCHANGED online
                 /\ cycle' = [cycle EXCEPT ![c] = Notify(
                        [@ EXCEPT !.ping = o,
                                  !.online_prior = online,
                                  !.online_probed = online,
                                  !.online_after = online,
                                  !.conn_log =
                                      ConnectionLog(cycle[c].server_online_old,
                                                    online)])]
                 /\ Continue(c, "done")
            [] OTHER ->
                 /\ UNCHANGED online
                 /\ cycle' = [cycle EXCEPT ![c] = Raise(
                        [@ EXCEPT !.ping = o,
                                  !.online_prior = online,
                                  !.online_probed = online,
                                  !.online_after = online], o)]
                 /\ Continue(c, "raised")
    /\ UNCHANGED <<host, port, last_status_request_failed,
                   srv_record_checked, mc_status, props, started, srv_calls,
                   status_events>>

\* Mutant of PingReturn: a failed probe also resets the debounce flag of
\* the status request.
PingReturn_ResetsFlag(c) ==
    /\ cycle[c].pc = "ping"
    /\ \E o \in StatusOutcomes :
          CASE o = "ok" ->
                 /\ online' = TRUE
                 /\ cycle' = [cycle EXCEPT ![c] = Fetch(
                        [@ EXCEPT !.ping = o,
                                  !.online_prior = online,
                                  !.online_probed = TRUE,
                                  !.online_after = TRUE,
                                  !.conn_log =
                                      ConnectionLog(cycle[c].server_online_old,
                                                    TRUE)])]
                 /\ UNCHANGED <<lifecycle, last_status_request_failed>>
            [] o = "OSError" ->
                 /\ online' = FALSE
                 /\ cycle' = [cycle EXCEPT ![c] = Notify(
                        [@ EXCEPT !.ping = o,
                                  !.online_prior = online,
                                  !.online_probed = FALSE,
                                  !.online_after = FALSE,
                                  !.conn_log =
                                      ConnectionLog(cycle[c].server_online_old,
                                                    FALSE)])]
                 /\ last_status_request_failed' = FALSE
                 /\ Continue(c, "done")
            [] OTHER ->
                 /\ UNCHANGED <<online, last_status_request_failed>>
                 /\ cycle' = [cycle EXCEPT ![c] = Raise(
                        [@ EXCEPT !.ping = o,
                                  !.online_prior = online,
                                  !.online_probed = online,
                                  !.online_after = online], o)]
                 /\ Continue(c, "raised")
    /\ UNCHANGED <<host, port, srv_record_checked, mc_status, props,
                   started, srv_calls, status_events>>

\* Lines 151-162 and 169-182: the status request of async_check_connection
\* returns; async_update logs the change and either awaits the status
\* request of _async_status_request or sends the signal and ends.
PingReturn(c) ==
    /\ cycle[c].pc = "ping"
    /\ \E o \in StatusOutcomes :
          CASE o = "ok" ->
                 /\ online' = TRUE
                 /\ cycle' = [cycle EXCEPT ![c] = Fetch(
                        [@ EXCEPT !.ping = o,
                                  !.online_prior = online,
                                  !.online_probed = TRUE,
                                  !.online_after = TRUE,
                                  !.conn_log =
                                      ConnectionLog(cycle[c].server_online_old,
                                                    TRUE)])]
                 /\ UNCHANGED lifecycle
            [] o = "OSError" ->
                 /\ online' = FALSE
                 /\ cycle' = [cycle EXCEPT ![c] = Notify(
                        [@ EXCEPT !.ping = o,
                                  !.online_prior = online,
                                  !.online_probed = FALSE,
                                  !.online_after = FALSE,
                                  !.conn_log =
                                      ConnectionLog(cycle[c].server_online_old,
                                                    FALSE)])]
                 /\ Continue(c, "done")
            [] OTHER ->
                 /\ UNCHANGED online
                 /\ cycle' = [cycle EXCEPT ![c] = Raise(
                        [@ EXCEPT !.ping = o,
                                  !.online_prior = online,
                                  !.online_probed = online,
                                  !.online_after = online], o)]
                 /\ Continue(c, "raised")
    /\ UNCHANGED <<host, port, last_status_request_failed,
                   srv_record_checked, mc_status, props, started, srv_calls,
                   status_events>>

\* The messages of _async_status_request after it logs message (none: it
\* logs nothing).
Logged(message) ==
    IF message = "none" THEN status_events
    ELSE Append(status_events, message)

\* Lines 187-229 and 182: the status request of _async_status_request
\* returns; the properties and the flag are updated and the signal is sent.
StatusReturn(c) ==
    /\ cycle[c].pc = "status"
    /\ \E o \in StatusOutcomes :
          CASE o = "ok" ->
                 \E r \in Responses :
                    /\ props' = Updated(props, r)
                    /\ last_status_request_failed' = FALSE
                    /\ status_events' =
                           Logged(SuccessLog(last_status_request_failed))
                    /\ cycle' = [cycle EXCEPT ![c] = Notify(
                           [@ EXCEPT !.status = o,
                                     !.failed_prior =
                                         last_status_request_failed,
                                     !.status_log =
                                         SuccessLog(last_status_request_failed),
                                     !.failed_after = FALSE,
                                     !.online_after = online])]
                    /\ Continue(c, "done")
            [] o = "OSError" ->
                 /\ props' = Unknown
                 /\ last_status_request_failed' = TRUE
                 /\ status_events' =
                        Logged(FailureLog(last_status_request_failed))
                 /\ cycle' = [cycle EXCEPT ![c] = Notify(
                        [@ EXCEPT !.status = o,
                                  !.failed_prior = last_status_request_failed,
                                  !.status_log =
                                      FailureLog(last_status_request_failed),
                                  !.failed_after = TRUE,
                                  !.online_after = online])]
                 /\ Continue(c, "done")
            [] OTHER ->
                 /\ UNCHANGED <<props, last_status_request_failed,
                                status_events>>
                 /\ cycle' = [cycle EXCEPT ![c] = Raise(
                        [@ EXCEPT !.status = o,
                                  !.failed_prior = last_status_request_failed,
                                  !.failed_after = last_status_request_failed,
                                  !.online_after = online], o)]
                 /\ Continue(c, "raised")
    /\ UNCHANGED <<host, port, online, srv_record_checked, mc_status,
                   started, srv_calls>>

\* Lines 63-72: async_unload_entry up to the await of the platform unloads.
UnloadEntry ==
    /\ setup = "loaded"
    /\ unload = "none"
    /\ unload' = "unloading"
    /\ UNCHANGED <<server, stop_periodic_update, timer, setup, domain_data,
                   cycle, started, srv_calls, cancel_calls>>

\* Mutant of StopPeriodicUpdate: the cancel callback is not called.
StopPeriodicUpdate_NoCancel == UNCHANGED <<timer, cancel_calls>>

\* Lines 126-128: stop_periodic_update calls the stored cancel callback.
StopPeriodicUpdate ==
    /\ timer' = "cancelled"
    /\ cancel_calls' = cancel_calls + 1

\* Lines 75-78: the platforms are unloaded; the timer is cancelled and the
\* server leaves hass.data.  Calling a _stop_periodic_update that is still
\* None is a TypeError that leaves async_unload_entry at line 75.
UnloadFinish ==
    /\ unload = "unloading"
    /\ IF stop_periodic_update # None
       THEN /\ StopPeriodicUpdate
            /\ domain_data' = FALSE
            /\ unload' = "unloaded"
       ELSE /\ unload' = "raised"
            /\ UNCHANGED <<timer, domain_data, cancel_calls>>
    /\ UNCHANGED <<server, stop_periodic_update, setup, cycle, started,
                   srv_calls>>

Next ==
    \/ SetupEntry
    \/ TimerFire
    \/ \E c \in Cycles : SrvReturn(c)
    \/ \E c \in Cycles : PingReturn(c)
    \/ \E c \in Cycles : StatusReturn(c)
    \/ UnloadEntry
    \/ UnloadFinish

Spec == Init /\ [][Next]_vars

\* Sequential cycles: the timer fires only when no cycle is in flight (a
\* cycle takes less than SCAN_INTERVAL).
TimerFireSeq == Fire(1)

NextSeq ==
    \/ SetupEntry
    \/ TimerFireSeq
    \/ \E c \in Cycles : SrvReturn(c)
    \/ \E c \in Cycles : PingReturn(c)
    \/ \E c \in Cycles : StatusReturn(c)
    \/ UnloadEntry
    \/ UnloadFinish

SpecSeq == Init /\ [][NextSeq]_vars

\* The server driven through its public coroutine: besides the setup and
\* the timer, any task that holds the server of hass.data may await
\* async_update (its parameter now defaults to None), at any time.
CallUpdate ==
    /\ domain_data
    /\ Cardinality({c \in Cycles : cycle[c].origin = "call"}) < MaxCalls
    /\ started < MaxCycles
    /\ Cardinality(InFlight) < MaxInFlight
    /\ Begin(started + 1, "call")
    /\ UNCHANGED lifecycle

\* Mutant of CallUnload: the lookup of line 64 does not fail for a server
\* that has left hass.data, the unload goes on with the instance.
CallUnload_NoLookup ==
    /\ setup # "created"
    /\ unload # "unloading"
    /\ unload' = "unloading"
    /\ UNCHANGED <<server, stop_periodic_update, timer, setup, domain_data,
                   cycle, started, srv_calls, cancel_calls>>

\* Lines 63-72, async_unload_entry called in any state of the entry, not
\* only for a loaded one: after a setup that failed, during the setup's
\* first update, or a second time.  Without the server in hass.data line 64
\* is a KeyError.
CallUnload ==
    /\ setup # "created"
    /\ unload # "unloading"
    /\ unload' = (IF domain_data THEN "unloading" ELSE "raised")
    /\ UNCHANGED <<server, stop_periodic_update, timer, setup, domain_data,
                   cycle, started, srv_calls, cancel_calls>>

NextApi ==
    \/ Next
    \/ CallUpdate
    \/ CallUnload

SpecApi == Init /\ [][NextApi]_vars

----------------------------------------------------------------------------
\* Properties.

\* No cycle is between its start and its end.
Quiescent == InFlight = {}

\* Every metric field is None.
Blank == \A f \in MetricFields : props[f] = None

\* The probe of cycle c ended in a failure of either kind.
ProbeFailed(c) == cycle[c].ping \in {"OSError", "Exception"}

\* The metrics fetch of cycle c ended in a failure of either kind.
FetchFailed(c) == cycle[c].status \in {"OSError", "Exception"}

\* The last cycle before c that made a metrics fetch (0: none).
PrevFetch(c) ==
    LET before == {d \in Cycles : d < c /\ cycle[d].status # None}
    IN  IF before = {} THEN 0
        ELSE CHOOSE d \in before : \A e \in before : e <= d

\* The last cycle before c whose metrics fetch the code classified, as a
\* success or as an OSError (0: none).
PrevClassified(c) ==
    LET before == {d \in Cycles :
                      d < c /\ cycle[d].status \in {"ok", "OSError"}}
    IN  IF before = {} THEN 0
        ELSE CHOOSE d \in before : \A e \in before : e <= d

\* The value of online when cycle c started, in sequential cycles: what
\* the cycle before it left.
OnlineBefore(c) == IF c = 1 THEN FALSE ELSE cycle[c - 1].online_after

\* C1: State blanking.  Whenever all started cycles have ended and online
\* is false, every metric field is None.
StateBlanking == (Quiescent /\ ~online) => Blank

\* C2: No failure is fatal to a cycle.  Whatever the SRV lookup returns and
\* however a status request fails, no cycle ends with an exception: every
\* cycle that ends has sent the signal.
NoFailureFatal ==
    \A c \in Ended : cycle[c].pc = "done" /\ cycle[c].sent = 1

\* C3: Notification cardinality.  A cycle has sent the signal exactly once
\* when it has completed, and not at all before: the signal is the last
\* thing a cycle does, whatever its probe and its metrics fetch returned.
NotificationCardinality ==
    \A c \in Cycles :
        cycle[c].sent = (IF cycle[c].pc = "done" THEN 1 ELSE 0)

\* C3 witness: three completed cycles, one offline, one whose metrics fetch
\* failed and one whose metrics fetch succeeded.
NotificationWitness ==
    \E c, d, e \in Cycles :
        /\ cycle[c].pc = "done" /\ cycle[c].ping = "OSError"
        /\ cycle[d].pc = "done" /\ cycle[d].status = "OSError"
        /\ cycle[e].pc = "done" /\ cycle[e].status = "ok"
        /\ cycle[c].sent = 1 /\ cycle[d].sent = 1 /\ cycle[e].sent = 1

\* C4: Debounce idempotence of the metrics fetch, in sequential cycles.
\* A failed metrics fetch leaves the flag true and logs the warning exactly
\* when it is the first failure of its run (the fetch before it, if any,
\* succeeded); a successful one leaves the flag false and logs the
\* recovery exactly when the fetch before it failed.
DebounceIdempotence ==
    \A c \in Ended :
        cycle[c].status # None =>
            LET p == PrevFetch(c)
                run == p # 0 /\ FetchFailed(p)
            IN  IF FetchFailed(c)
                THEN /\ cycle[c].failed_after = TRUE
                     /\ cycle[c].status_log =
                            (IF run THEN "none" ELSE "warning")
                ELSE /\ cycle[c].failed_after = FALSE
                     /\ cycle[c].status_log =
                            (IF run THEN "info" ELSE "none")

\* The first three cycles have ended and their probes were fail, fail,
\* success.
RecoveryCycles ==
    /\ {1, 2, 3} \subseteq Ended
    /\ ProbeFailed(1)
    /\ ProbeFailed(2)
    /\ cycle[3].ping = "ok"

\* C5 as claimed: probes [fail, fail, success] on a new monitor log
\* [warning, nothing, info] and leave online [false, false, true].
RecoveryScenarioClaimed ==
    RecoveryCycles =>
        /\ <<cycle[1].conn_log, cycle[2].conn_log, cycle[3].conn_log>>
               = <<"warning", "none", "info">>
        /\ <<cycle[1].online_after, cycle[2].online_after,
             cycle[3].online_after>> = <<FALSE, FALSE, TRUE>>

\* C5 as amended: probes [fail, fail, success] on a new monitor log
\* [nothing, nothing, info] (online starts false, so the first failure is
\* no change) and leave online [false, false, true].
RecoveryScenario ==
    RecoveryCycles =>
        /\ <<cycle[1].conn_log, cycle[2].conn_log, cycle[3].conn_log>>
               = <<"none", "none", "info">>
        /\ <<cycle[1].online_after, cycle[2].online_after,
             cycle[3].online_after>> = <<FALSE, FALSE, TRUE>>

\* C5 witness: the three cycles have run and online is true.
RecoveryWitness == RecoveryCycles /\ Quiescent /\ online

\* C6: Connectivity logging is edge-triggered in sequential cycles.  Once
\* the probe of a cycle has returned, the cycle has logged the warning iff
\* online was true before the cycle and is false after the probe, and the
\* info iff online was false before and is true after the probe.
EdgeTriggered ==
    \A c \in Cycles :
        cycle[c].ping # None =>
            /\ cycle[c].conn_log = "warning"
                   <=> (OnlineBefore(c) = TRUE /\ cycle[c].online_probed = FALSE)
            /\ cycle[c].conn_log = "info"
                   <=> (OnlineBefore(c) = FALSE /\ cycle[c].online_probed = TRUE)
            /\ OnlineBefore(c) = cycle[c].online_probed
                   => cycle[c].conn_log = "none"

\* C6 witness: a loss, a repeated failure and a recovery, in that order.
EdgeWitness ==
    /\ cycle[1].conn_log = "info"
    /\ cycle[2].conn_log = "warning"
    /\ cycle[3].ping = "OSError" /\ cycle[3].conn_log = "none"

\* Cycle c completed with a successful probe and a metrics fetch that
\* failed with an OSError.
MetricsOnlyFailure(c) ==
    /\ cycle[c].pc = "done"
    /\ cycle[c].ping = "ok"
    /\ cycle[c].status = "OSError"

\* C7: Metrics-only failure, in sequential cycles.  After such a cycle
\* online is true and every metric field is None; the cycle logs the
\* warning when the metrics fetch classified before it, if any, succeeded,
\* and nothing when that fetch failed too, so an immediate repeat is
\* silent.
MetricsOnlyFailureHandled ==
    \A c \in Cycles :
        MetricsOnlyFailure(c) =>
            /\ cycle[c].online_after = TRUE
            /\ (c = started /\ Quiescent) => (online /\ Blank)
            /\ LET p == PrevClassified(c)
               IN  cycle[c].status_log =
                       (IF p # 0 /\ cycle[p].status = "OSError"
                        THEN "none" ELSE "warning")
            /\ (c > 1 /\ MetricsOnlyFailure(c - 1))
                   => cycle[c].status_log = "none"

\* C7 witness: a cycle that fills the metrics, then two metrics-only
\* failures in a row, the first logged and the second silent.
MetricsOnlyWitness ==
    /\ cycle[1].status = "ok"
    /\ MetricsOnlyFailure(2) /\ cycle[2].status_log = "warning"
    /\ MetricsOnlyFailure(3) /\ cycle[3].status_log = "none"
    /\ online /\ Blank

\* C8: One-time resolution.  The SRV lookup is called at most once, also
\* when cycles overlap the cycle that awaits it.
OneTimeResolution == srv_calls <= 1

\* C8 witness: a second cycle has started and ended while the first still
\* awaits the SRV lookup.
ResolutionWitness ==
    /\ cycle[1].pc = "srv"
    /\ 2 \in Ended
    /\ srv_calls = 1

\* C9: Immediate cycle.  The timer is armed only after the first cycle has
\* completed (probe answered, signal sent); a cycle started by the timer
\* finds the first cycle completed; and when setup arms the timer, online
\* is the answer of the first probe.
ImmediateCycle ==
    /\ timer # "unarmed" =>
           /\ cycle[1].pc = "done"
           /\ cycle[1].sent = 1
           /\ cycle[1].ping \in {"ok", "OSError"}
    /\ \A c \in Cycles : cycle[c].origin = "timer" => cycle[1].pc = "done"
    /\ (setup = "loaded" /\ started = 1) =>
           online = (cycle[1].ping = "ok")

\* C9 witness: setup has armed the timer and no timer cycle has started.
ImmediateWitness ==
    /\ setup = "loaded"
    /\ timer = "armed"
    /\ started = 1
    /\ online

\* C10: Scheduling persists until stop.  While the timer is armed it can
\* fire (up to the model's caps) whatever the earlier cycles did; only the
\* end of async_unload_entry disarms it; and after that no cycle starts.
SchedulingPersists ==
    /\ [](timer = "armed" /\ started < MaxCycles
            /\ Cardinality(InFlight) < MaxInFlight => ENABLED TimerFire)
    /\ [][timer = "armed" /\ unload' # "unloaded" => timer' = "armed"]_vars
    /\ [][unload = "unloaded" => started' = started]_vars

\* C10 witness: timer cycles started after an offline cycle and after a
\* metrics failure, and the entry is now unloaded.
SchedulingWitness ==
    /\ cycle[1].ping = "OSError"
    /\ cycle[2].origin = "timer" /\ cycle[2].status = "OSError"
    /\ cycle[3].origin = "timer" /\ 3 \in Ended
    /\ unload = "unloaded"
    /\ timer = "cancelled"

\* C11: Stop during an in-flight cycle.  Once async_unload_entry has
\* stopped the periodic update, a cycle still in flight runs to its end
\* without raising, changes no status field and sends no signal.
StopDiscardsInFlight ==
    [][unload = "unloaded" =>
          /\ UNCHANGED <<online, props, last_status_request_failed>>
          /\ \A c \in Cycles : /\ cycle'[c].sent = cycle[c].sent
                               /\ cycle'[c].pc # "raised"]_vars

\* C12 as claimed: at most one cycle is in flight at every moment.
SingleCycleInFlight == Cardinality(InFlight) <= 1

\* C12 as amended: only the first cycle, which async_setup_entry awaits
\* before it arms the timer, is alone in flight; nothing keeps a timer fire
\* from starting a cycle next to one that is in flight.
FirstCycleAlone ==
    /\ timer = "unarmed" => Cardinality(InFlight) <= 1
    /\ 1 \in InFlight => InFlight = {1}

\* C12 witness: the first cycle awaits its metrics fetch, alone.
FirstCycleWitness ==
    /\ cycle[1].pc = "status"
    /\ InFlight = {1}
    /\ timer = "unarmed"

\* Some cycle takes the step in which the SRV lookup returns.
ResolutionStep ==
    \E c \in Cycles : cycle[c].pc = "srv" /\ cycle'[c].pc # "srv"

\* C13: Identity mutability.  host and port are the configured pair or the
\* pair of the SRV record; they change only in the step in which the one
\* SRV lookup returns, from the configured pair to the record's; a step of
\* a cycle that found srv_record_checked true at its start changes neither.
IdentityMutability ==
    /\ [](<<host, port>> \in {<<ConfigData.host, ConfigData.port>>,
                              <<SrvRecord.host, SrvRecord.port>>})
    /\ [][<<host, port>>' # <<host, port>> =>
             /\ ResolutionStep
             /\ srv_calls = 1
             /\ <<host, port>> = <<ConfigData.host, ConfigData.port>>
             /\ <<host, port>>' = <<SrvRecord.host, SrvRecord.port>>]_vars
    /\ [][(srv_record_checked /\ ~ResolutionStep)
             => <<host, port>>' = <<host, port>>]_vars

\* C13 witness: the identity was rewritten and a later cycle has ended.
IdentityWitness ==
    /\ <<host, port>> = <<SrvRecord.host, SrvRecord.port>>
    /\ cycle[1].error = "NameError"
    /\ cycle[2].pc = "done"

\* C14: Safe stop.  The cancel callback is called at most once, and only
\* after start_periodic_update has armed the timer, in whatever state of
\* the entry async_unload_entry is called.
SafeStop ==
    /\ cancel_calls <= 1
    /\ cancel_calls = 1 =>
           (stop_periodic_update # None /\ timer = "cancelled")
    /\ timer \in {"unarmed", "armed"} => cancel_calls = 0

\* C14 witness: the entry was unloaded, the timer cancelled once, and a
\* further unload found no server to stop.
SafeStopWitness ==
    /\ cancel_calls = 1
    /\ timer = "cancelled"
    /\ ~domain_data
    /\ unload = "raised"

\* C15: Connectivity state follows the probe, in sequential cycles.  After
\* a cycle that completed, online is true iff the connectivity query of
\* that cycle succeeded, whatever online was before and however the
\* metrics query ended.
OnlineFollowsProbe ==
    \A c \in Cycles :
        cycle[c].pc = "done" =>
            /\ cycle[c].online_after = (cycle[c].ping = "ok")
            /\ c = started => online = (cycle[c].ping = "ok")

\* C15 witness: offline, then online with a failed metrics query, then
\* offline again.
OnlineFollowsWitness ==
    /\ cycle[1].ping = "OSError"
    /\ cycle[2].ping = "ok" /\ cycle[2].status = "OSError"
    /\ cycle[3].ping = "OSError" /\ cycle[3].pc = "done"
    /\ ~online

\* C16: Probe target consistency.  The query client is bound to the host
\* and port the server stores, so every query goes to the stored identity,
\* also after the SRV lookup rewrote it.
ProbeTargetConsistency == mc_status = [host |-> host, port |-> port]

\* C17: Two dependent fetches per cycle.  A cycle that has ended issued
\* the connectivity query exactly once and the metrics query at most once,
\* the latter iff the former succeeded, each with MAX_RETRIES_STATUS; no
\* cycle issues either query twice.
TwoDependentFetches ==
    /\ \A c \in Cycles :
          /\ cycle[c].ping_calls <= 1
          /\ cycle[c].status_calls <= 1
          /\ cycle[c].ping_calls = 1 =>
                 cycle[c].ping_tries = MAX_RETRIES_STATUS
          /\ cycle[c].status_calls = 1 =>
                 cycle[c].status_tries = MAX_RETRIES_STATUS
          /\ cycle[c].status_calls = 1 <=> cycle[c].ping = "ok"
    /\ \A c \in Ended : cycle[c].ping_calls = 1

\* The first three cycles were a metrics-only failure, an offline cycle and
\* a metrics-only failure.
InterruptedRun ==
    /\ MetricsOnlyFailure(1)
    /\ cycle[2].pc = "done" /\ cycle[2].ping = "OSError"
    /\ MetricsOnlyFailure(3)

\* C18: Frame of an offline cycle, in sequential cycles.  A cycle whose
\* probe failed made no metrics query and logged no metrics message; the
\* step in which the probe fails changes nothing but online; so metrics
\* failures around an offline cycle are one run and log one warning (the
\* log holds that one warning when the third cycle has ended).
OfflineCycleFrame ==
    /\ [](\A c \in Cycles :
             ProbeFailed(c) =>
                 /\ cycle[c].status = None
                 /\ cycle[c].status_calls = 0
                 /\ cycle[c].status_log = "none")
    /\ [][\A c \in Cycles :
             (cycle[c].pc = "ping"
                  /\ cycle'[c].ping \in {"OSError", "Exception"}) =>
                 UNCHANGED <<host, port, mc_status, srv_record_checked,
                             props, last_status_request_failed,
                             status_events>>]_vars
    /\ [](InterruptedRun =>
             /\ <<cycle[1].status_log, cycle[2].status_log,
                  cycle[3].status_log>> = <<"warning", "none", "none">>
             /\ started = 3 => status_events = <<"warning">>)

\* C18 witness: the interrupted run has just happened.
OfflineFrameWitness ==
    InterruptedRun /\ started = 3 /\ last_status_request_failed

\* The last metrics message logged (none: nothing logged yet).
LastStatusEvent ==
    IF status_events = <<>> THEN "none"
    ELSE status_events[Len(status_events)]

\* C19: Metrics debounce under overlapping cycles.  The warning is logged
\* exactly in the steps that turn the flag from false to true and the
\* recovery exactly in those that turn it from true to false, so the
\* messages alternate in every interleaving.
DebounceUnderOverlap ==
    /\ [](\A i \in 1..(Len(status_events) - 1) :
             status_events[i] # status_events[i + 1])
    /\ [](last_status_request_failed <=> LastStatusEvent = "warning")
    /\ [][/\ (~last_status_request_failed /\ last_status_request_failed')
                <=> status_events' = Append(status_events, "warning")
          /\ (last_status_request_failed /\ ~last_status_request_failed')
                <=> status_events' = Append(status_events, "info")
          /\ last_status_request_failed' = last_status_request_failed
                <=> status_events' = status_events]_vars

\* C19 witness: cycle 3 overtook cycle 2, which is still awaiting its
\* metrics query; cycle 3 logged the recovery after the warning of cycle 1.
DebounceOverlapWitness ==
    /\ cycle[1].status_log = "warning"
    /\ cycle[2].pc = "status"
    /\ cycle[3].pc = "done" /\ cycle[3].status_log = "info"
    /\ status_events = <<"warning", "info">>

\* C20: Connectivity logging under overlapping cycles.  A cycle logs the
\* loss only if its own probe turned online from true to false, and the
\* recovery only if it turned online from false to true.
ConnectionLogPerChange ==
    \A c \in Cycles :
        /\ cycle[c].conn_log = "warning" =>
               (cycle[c].online_prior = TRUE /\ cycle[c].online_probed = FALSE)
        /\ cycle[c].conn_log = "info" =>
               (cycle[c].online_prior = FALSE /\ cycle[c].online_probed = TRUE)

====
